---- MODULE Spec2Model ----
(***************************************************************************)
(* A model of texar's TransformerDecoder                                  *)
(* (src/texar/modules/decoders/transformer_decoders.py): the decoder      *)
(* stack, the incremental step function, the greedy loop, the beam        *)
(* decoder and the training path, driven by a client that calls them on   *)
(* one set of weights and one encoder output.                             *)
(*                                                                         *)
(* Conventions of the model.                                               *)
(*  - A tensor [rows, ...] is a function on 1..rows; [rows, len] is a      *)
(*    function from rows to sequences.                                     *)
(*  - The trained network is an arbitrary deterministic function from      *)
(*    what the last layer of the stack sees (the attended inputs, the      *)
(*    encoder row, the cross-attention bias) to the logits over the        *)
(*    vocabulary.  Its value at an argument is chosen when the argument    *)
(*    is first needed and kept in net from then on.                        *)
(*  - Logits are integers l, in units of ln 2: the soft-max weight of a    *)
(*    token is 2^l.  A log-probability is kept exactly, as the reduced     *)
(*    fraction <<n, d>> whose logarithm it is: 0 is <<1, 1>> and adding    *)
(*    log-probabilities multiplies fractions.  Rounding of float32 is not  *)
(*    modelled.                                                            *)
(*  - Dropout is inactive while decoding (the global mode is not TRAIN).   *)
(***************************************************************************)
EXTENDS Integers, Sequences, FiniteSets, TLC

(***************************************************************************)
(* Bounds of the model.                                                    *)
(***************************************************************************)
MaxDecodeLength == 2
MaxBatch == 2
NumBlocks == 2
VocabSize == 3
MaxTargetLen == 2
MaxRuns == 2

(***************************************************************************)
(* Program constants.                                                      *)
(***************************************************************************)
DefaultEosIdx == 2
DefaultBosIdx == 1
StartTokenFill == 1
DefaultAlpha == 0

Vocab == 0..(VocabSize - 1)
Layers == 0..(NumBlocks - 1)
Rows(t) == DOMAIN t

NoneBias == "None"
BiasValues == {"bias_a", "bias_b"}
NoMemoryRow == 0 - 1

(* Optional arguments: <<>> is None, <<v>> is the value v. *)
None == <<>>
Some(v) == <<v>>
IsNone(o) == Len(o) = 0
Get(o) == o[1]

(***************************************************************************)
(* Arithmetic of exact log-probabilities.                                  *)
(***************************************************************************)
RECURSIVE Gcd(_, _)
Gcd(a, b) == IF b = 0 THEN a ELSE Gcd(b, a % b)

RECURSIVE Pow2(_)
Pow2(n) == IF n = 0 THEN 1 ELSE 2 * Pow2(n - 1)

RECURSIVE SumWeights(_, _)
SumWeights(logits, v) ==
    IF v < 0 THEN 0 ELSE Pow2(logits[v]) + SumWeights(logits, v - 1)

Reduce(n, d) == LET g == Gcd(n, d) IN <<n \div g, d \div g>>

ZeroLogProb == <<1, 1>>

(* A faulty accumulation that drops the term. *)
AddLogProb_dropping_term(a, b) == a

(* log_prob + term *)
AddLogProb(a, b) == Reduce(a[1] * b[1], a[2] * b[2])

(* a < b as log-probabilities *)
LessLogProb(a, b) == a[1] * b[2] < b[1] * a[2]

(* logits - reduce_logsumexp(logits), read at one token *)
LogSoftmaxAt(logits, tok) ==
    Reduce(Pow2(logits[tok]), SumWeights(logits, VocabSize - 1))

(* A faulty arg-max: the largest index among the largest entries. *)
ArgMax_last_index(logits) ==
    CHOOSE v \in Vocab :
        /\ \A u \in Vocab : logits[u] <= logits[v]
        /\ \A u \in Vocab : u > v => logits[u] < logits[v]

(* tf.argmax: the smallest index among the largest entries *)
ArgMax(logits) ==
    CHOOSE v \in Vocab :
        /\ \A u \in Vocab : logits[u] <= logits[v]
        /\ \A u \in Vocab : u < v => logits[u] < logits[v]

Peak(t) == [v \in Vocab |-> IF v = t THEN 1 ELSE 0]
Flat == [v \in Vocab |-> 0]
(* The logits a network may answer with: a tie (arg-max is token 0), and a *)
(* peak at the default end token.                                          *)
LogitsChoices == {Flat, Peak(DefaultEosIdx)}

(***************************************************************************)
(* Values flowing through the stack.  An embedded token is the record of   *)
(* what was put into it; a position of a layer's activations is the        *)
(* record of what it was computed from: its own embedded input, the        *)
(* inputs it attended to (hist), the encoder row and the cross-attention   *)
(* bias.                                                                   *)
(***************************************************************************)
(* tf.nn.embedding_lookup(self._embedding, tokens) *)
_prepare_tokens_to_embeds(tok) == [tok |-> tok, scaled |-> FALSE, pos |-> -1]

Position(inp) ==
    [inp |-> inp, hist |-> <<>>, mem |-> NoMemoryRow, bias |-> NoneBias]

Inputs(xs) == [i \in 1..Len(xs) |-> xs[i].inp]

EmptyRows(t) == [r \in Rows(t) |-> <<>>]

(* A faulty cache whose self-attention rows start with one padded entry. *)
_init_cache_padded(memory, encoder_decoder_attention_bias) ==
    LET pad == [r \in Rows(memory) |-> <<_prepare_tokens_to_embeds(0)>>]
    IN  [memory |-> memory,
         encoder_decoder_attention_bias |-> encoder_decoder_attention_bias,
         layer |-> [l \in Layers |->
                      [self_keys |-> pad,
                       self_values |-> pad,
                       memory_keys |-> EmptyRows(memory),
                       memory_values |-> EmptyRows(memory)]]]

_init_cache(memory, encoder_decoder_attention_bias) ==
    [memory |-> memory,
     encoder_decoder_attention_bias |-> encoder_decoder_attention_bias,
     layer |-> [l \in Layers |->
                  [self_keys |-> EmptyRows(memory),
                   self_values |-> EmptyRows(memory),
                   memory_keys |-> EmptyRows(memory),
                   memory_values |-> EmptyRows(memory)]]]

(***************************************************************************)
(* attentions.multihead_attention, the attention primitive: given the      *)
(* queries, an optional memory, a bias and an optional layer cache, the    *)
(* attended output and the layer cache after the call.  proj counts the    *)
(* projections of the memory to keys and values made by the call.          *)
(*  - Self-attention with a cache appends the keys and values of the       *)
(*    queries to the cached ones and attends to all of them.               *)
(*  - Self-attention without a cache attends, under the causal bias, to    *)
(*    the positions up to the query's own.                                 *)
(*  - Cross-attention with a cache projects the memory once, stores the    *)
(*    keys and values and reuses them; without a cache it projects the     *)
(*    memory at every call.                                                *)
(***************************************************************************)
multihead_attention(queries, memory, memory_attention_bias, cache) ==
    IF IsNone(memory)
    THEN IF ~IsNone(cache)
         THEN LET c == Get(cache)
                  K == [r \in Rows(queries) |->
                          c.self_keys[r] \o Inputs(queries[r])]
                  V == [r \in Rows(queries) |->
                          c.self_values[r] \o Inputs(queries[r])]
              IN  [out |-> [r \in Rows(queries) |->
                              [i \in 1..Len(queries[r]) |->
                                  [queries[r][i] EXCEPT !.hist = K[r]]]],
                   cache |-> Some([c EXCEPT !.self_keys = K,
                                            !.self_values = V]),
                   proj |-> 0]
         ELSE [out |-> [r \in Rows(queries) |->
                          [i \in 1..Len(queries[r]) |->
                              [queries[r][i] EXCEPT !.hist =
                                  IF memory_attention_bias = "causal"
                                  THEN SubSeq(Inputs(queries[r]), 1, i)
                                  ELSE Inputs(queries[r])]]],
               cache |-> cache,
               proj |-> 0]
    ELSE LET m == Get(memory)
             attend == [r \in Rows(queries) |->
                          [i \in 1..Len(queries[r]) |->
                              [queries[r][i] EXCEPT
                                  !.mem = m[r],
                                  !.bias = IF IsNone(memory_attention_bias)
                                           THEN NoneBias
                                           ELSE Get(memory_attention_bias)[r]]]]
         IN  IF IsNone(cache)
             THEN [out |-> attend, cache |-> cache, proj |-> 1]
             ELSE LET c == Get(cache)
                      fresh == \A r \in Rows(m) : Len(c.memory_keys[r]) = 0
                      KV == [r \in Rows(m) |-> <<m[r]>>]
                  IN  [out |-> attend,
                       cache |-> IF fresh
                                 THEN Some([c EXCEPT !.memory_keys = KV,
                                                     !.memory_values = KV])
                                 ELSE cache,
                       proj |-> IF fresh THEN 1 ELSE 0]

(***************************************************************************)
(* One layer of the stack: self-attention on the layer's cache, then       *)
(* cross-attention on the encoder output when there is one (called with    *)
(* no cache), then the position-wise network, which keeps what each        *)
(* position was computed from.  st is the loop's state: the activations    *)
(* x, the cache, and the counts of projections and of layers evaluated.    *)
(***************************************************************************)
StackLayer(i, st, encoder_output, decoder_self_attention_bias, encoder_decoder_attention_bias) ==
    LET layer_cache == IF ~IsNone(st.cache)
                       THEN Some(Get(st.cache).layer[i]) ELSE None
        selfatt == multihead_attention(st.x, None,
                                       decoder_self_attention_bias,
                                       layer_cache)
        cache1 == IF ~IsNone(st.cache)
                  THEN Some([Get(st.cache) EXCEPT
                                !.layer[i] = Get(selfatt.cache)])
                  ELSE None
        encdec == IF ~IsNone(encoder_output)
                  THEN multihead_attention(selfatt.out, encoder_output,
                                           encoder_decoder_attention_bias,
                                           None)
                  ELSE [out |-> selfatt.out, cache |-> None, proj |-> 0]
    IN  [x |-> encdec.out,
         cache |-> cache1,
         kv_proj |-> st.kv_proj + encdec.proj,
         layers_run |-> st.layers_run + 1]

RECURSIVE StackLoop(_, _, _, _, _)
StackLoop(i, st, encoder_output, decoder_self_attention_bias, encoder_decoder_attention_bias) ==
    IF i >= NumBlocks THEN st
    ELSE StackLoop(i + 1,
                   StackLayer(i, st, encoder_output,
                              decoder_self_attention_bias,
                              encoder_decoder_attention_bias),
                   encoder_output, decoder_self_attention_bias,
                   encoder_decoder_attention_bias)

(* A faulty stack: no assert, and the cross-attention bias is the argument. *)
_self_attention_stack_unchecked(inputs, encoder_output, decoder_self_attention_bias, encoder_decoder_attention_bias, cache) ==
    [raised |-> FALSE, bias_used |-> encoder_decoder_attention_bias,
     st |-> StackLoop(0, [x |-> inputs, cache |-> cache, kv_proj |-> 0,
                          layers_run |-> 0],
                      encoder_output, decoder_self_attention_bias,
                      encoder_decoder_attention_bias)]

(***************************************************************************)
(* _self_attention_stack.  The result says whether the call raised         *)
(* (the assert), which cross-attention bias it used, and the loop's final  *)
(* state.                                                                  *)
(***************************************************************************)
_self_attention_stack(inputs, encoder_output, decoder_self_attention_bias, encoder_decoder_attention_bias, cache) ==
    LET bias == IF ~IsNone(cache)
                THEN Some(Get(cache).encoder_decoder_attention_bias)
                ELSE encoder_decoder_attention_bias
        st0 == [x |-> inputs, cache |-> cache, kv_proj |-> 0,
                layers_run |-> 0]
    IN  IF IsNone(cache) /\ decoder_self_attention_bias = NoneBias
        THEN [raised |-> TRUE, bias_used |-> bias, st |-> st0]
        ELSE [raised |-> FALSE, bias_used |-> bias,
              st |-> StackLoop(0, st0, encoder_output,
                               decoder_self_attention_bias, bias)]

(***************************************************************************)
(* _symbols_to_logits_fn._impl up to the output layer: the last token of   *)
(* every row is embedded, scaled when multiply_embedding_mode is           *)
(* 'sqrt_depth' (otherwise `assert NotImplementedError` asserts a class,   *)
(* which is true, and the step goes on), given the timing signal of        *)
(* `step`, and run through the stack with the cache.                       *)
(***************************************************************************)
ScaleEmbedding(emb, multiply_embedding_mode) ==
    IF multiply_embedding_mode = "sqrt_depth"
    THEN [emb EXCEPT !.scaled = TRUE]
    ELSE emb

AddTiming(emb, pos) == [emb EXCEPT !.pos = pos]

_impl(ids, step_, cache_, hp) ==
    LET inputs == [r \in Rows(ids) |->
                     <<Position(AddTiming(
                          ScaleEmbedding(
                              _prepare_tokens_to_embeds(ids[r][Len(ids[r])]),
                              hp.multiply_embedding_mode),
                          step_))>>]
        res == _self_attention_stack(inputs, Some(cache_.memory), NoneBias,
                                     None, Some(cache_))
    IN  [outputs |-> res.st.x,
         cache |-> Get(res.st.cache),
         kv_proj |-> res.st.kv_proj,
         raised |-> res.raised]

(***************************************************************************)
(* self.output_layer: the logits of every position of every row, read      *)
(* from the network w.                                                     *)
(***************************************************************************)
output_layer(outputs, w) ==
    [r \in Rows(outputs) |->
        [i \in 1..Len(outputs[r]) |-> w[outputs[r][i]]]]

(* tf.squeeze(logits, axis=[1]) *)
Squeeze(logits) == [r \in Rows(logits) |-> logits[r][1]]

(* The positions whose logits a call needs *)
Asked(outputs) ==
    UNION {{outputs[r][i] : i \in 1..Len(outputs[r])} : r \in Rows(outputs)}

(***************************************************************************)
(* The state.                                                              *)
(*   hparams                          the decoder's hyperparameters        *)
(*   encoder_output,                                                       *)
(*   encoder_decoder_attention_bias   the inputs of every call             *)
(*   net                              the network's answers so far         *)
(*   pc                               where the client is: "idle", inside  *)
(*                                    the greedy loop, inside the beam     *)
(*                                    loop, or "done"                      *)
(*   call                             the arguments of the running call    *)
(*   step, finished, next_id,                                              *)
(*   decoded_ids, cache, log_prob     the loop variables of _greedy_decode *)
(*   iters, kv_proj                   executions of the loop body and      *)
(*                                    projections of the memory to keys    *)
(*                                    and values in the running call       *)
(*   trace                            the loop states the running call     *)
(*                                    has passed through                   *)
(*   returns                          what the finished inference calls    *)
(*                                    returned, oldest first               *)
(*   beam                             the loop state of beam_search        *)
(*   train_out                        what a training call of _build       *)
(*                                    returned                             *)
(*   stack_out                        what a client's own call of          *)
(*                                    _self_attention_stack did            *)
(***************************************************************************)
VARIABLES hparams, encoder_output, encoder_decoder_attention_bias, net, pc, call, step, finished, next_id, decoded_ids, cache, log_prob, iters, kv_proj, trace, returns, beam, train_out, stack_out, data

vars == <<hparams, encoder_output, encoder_decoder_attention_bias, net, pc, call, step, finished, next_id, decoded_ids, cache, log_prob, iters, kv_proj, trace, returns, beam, train_out, stack_out, data>>

inputs_ == <<hparams, encoder_output, encoder_decoder_attention_bias>>

oneshot_vars == <<train_out, stack_out, data>>

SamplingMethods == {"argmax", "sample"}
MultiplyEmbeddingModes == {"sqrt_depth", "none"}
BeamWidths == {1, 2}

(* default_hparams, with the decode length left to the bounds *)
default_hparams(maximum_decode_length) ==
    [sampling_method |-> "argmax",
     multiply_embedding_mode |-> "sqrt_depth",
     maximum_decode_length |-> maximum_decode_length,
     eos_idx |-> DefaultEosIdx,
     bos_idx |-> DefaultBosIdx,
     beam_width |-> 1,
     alpha |-> DefaultAlpha]

(* The hyperparameters of a decoder: the defaults, or the defaults with    *)
(* one of them changed.                                                    *)
HParams ==
    UNION {LET d == default_hparams(n)
           IN  {d}
               \cup {[d EXCEPT !.sampling_method = m] : m \in SamplingMethods}
               \cup {[d EXCEPT !.multiply_embedding_mode = m] :
                        m \in MultiplyEmbeddingModes}
               \cup {[d EXCEPT !.bos_idx = t] : t \in Vocab}
               \cup {[d EXCEPT !.beam_width = w] : w \in BeamWidths}
           : n \in 0..MaxDecodeLength}

(* The batches a decoder is run on: up to MaxBatch rows; the sampling      *)
(* decoder and the wide beam, whose runs branch at every row, on one row.  *)
BatchSizes(h) ==
    IF h.sampling_method = "argmax" /\ h.beam_width <= 1
    THEN 1..MaxBatch ELSE {1}

(* The inference calls a client makes through _build: a deterministic      *)
(* decoder is run MaxRuns times on the same inputs, a sampling one once.   *)
RunsWanted(h) == IF h.sampling_method = "argmax" THEN MaxRuns ELSE 1

SessionBias == "bias_a"

(* The encoder outputs of a batch: rows all equal, or all different. *)
EncoderOutputs(B) == {[b \in 1..B |-> 0], [b \in 1..B |-> b]}

BiasTensor(B, v) == [r \in 1..B |-> v]

NoCall == [fn |-> "none", eos |-> 0, decode_length |-> 0, beam_width |-> 0,
           max_length |-> 0]

NoBeam == [i |-> 0, hyps |-> <<>>]

NoTrain == [called |-> FALSE, decoder_input |-> <<>>, raised |-> FALSE,
            inputs |-> <<>>, layers_run |-> 0, cache_given |-> FALSE,
            logits |-> <<>>, preds |-> <<>>]

NoData == [called |-> FALSE, hparams |-> <<>>, raised |-> FALSE,
           log |-> <<>>, fields |-> {}, vocab |-> <<>>, embedding |-> <<>>,
           name_prefix |-> None]

NoStack == [called |-> FALSE, cache_given |-> FALSE,
            decoder_self_attention_bias |-> NoneBias, bias_given |-> None,
            raised |-> FALSE, layers_run |-> 0, bias_used |-> None,
            bias_seen |-> <<>>]

greedy_vars == <<step, finished, next_id, decoded_ids, cache, log_prob>>

LoopState ==
    [step |-> step, finished |-> finished, next_id |-> next_id,
     decoded_ids |-> decoded_ids, cache |-> cache, log_prob |-> log_prob]

Init ==
    /\ hparams \in HParams
    /\ \E B \in BatchSizes(hparams) :
         /\ encoder_output \in EncoderOutputs(B)
         /\ encoder_decoder_attention_bias = BiasTensor(B, SessionBias)
    /\ net = <<>>
    /\ pc = "idle"
    /\ call = NoCall
    /\ step = 0
    /\ finished = <<>>
    /\ next_id = <<>>
    /\ decoded_ids = <<>>
    /\ cache = _init_cache(<<>>, <<>>)
    /\ log_prob = <<>>
    /\ iters = 0
    /\ kv_proj = 0
    /\ trace = <<>>
    /\ returns = <<>>
    /\ beam = NoBeam
    /\ train_out = NoTrain
    /\ stack_out = NoStack
    /\ data = NoData

(***************************************************************************)
(* _greedy_decode up to the loop: the loop variables, the cache and the    *)
(* step function (whose position table has decode_length + 1 rows).        *)
(***************************************************************************)
_greedy_decode(start_tokens, eos, decode_length, memory, bias) ==
    /\ finished' = [b \in Rows(start_tokens) |-> FALSE]
    /\ step' = 0
    /\ decoded_ids' = [b \in Rows(start_tokens) |-> <<>>]
    /\ next_id' = [b \in Rows(start_tokens) |-> <<start_tokens[b]>>]
    /\ log_prob' = [b \in Rows(start_tokens) |-> ZeroLogProb]
    /\ cache' = _init_cache(memory, bias)
    /\ call' = [fn |-> "_greedy_decode", eos |-> eos,
                decode_length |-> decode_length, beam_width |-> 1,
                max_length |-> decode_length + 1]
    /\ iters' = 0
    /\ kv_proj' = 0
    /\ trace' = <<LoopState'>>
    /\ pc' = "greedy"

(* tf.fill([batch_size], 1) *)
StartTokens(batch_size) == [b \in 1..batch_size |-> StartTokenFill]

BatchSize(bias) == Cardinality(DOMAIN bias)

(***************************************************************************)
(* _build in inference mode with beam_width <= 1.                          *)
(***************************************************************************)
BuildGreedy ==
    /\ pc = "idle"
    /\ Len(returns) < RunsWanted(hparams)
    /\ hparams.beam_width <= 1
    /\ _greedy_decode(StartTokens(BatchSize(encoder_decoder_attention_bias)),
                      hparams.eos_idx, hparams.maximum_decode_length,
                      encoder_output, encoder_decoder_attention_bias)
    /\ UNCHANGED <<inputs_, net, returns, beam, oneshot_vars>>

(* is_not_finished: the loop's condition *)
(* Faulty loop conditions: one without the step bound, one with the bound   *)
(* off by one.                                                             *)
is_not_finished_unbounded(i, fin, decode_length) ==
    ~(\A b \in Rows(fin) : fin[b])

is_not_finished_inclusive(i, fin, decode_length) ==
    (i <= decode_length) /\ ~(\A b \in Rows(fin) : fin[b])

is_not_finished(i, fin, decode_length) ==
    (i < decode_length) /\ ~(\A b \in Rows(fin) : fin[b])

(* A faulty choice that samples whatever the method. *)
SampleIds_always_sample(logits, sampling_method) == [Rows(logits) -> Vocab]

(* What the sampling method may choose for the rows, given their logits. *)
SampleIds(logits, sampling_method) ==
    IF sampling_method = "argmax"
    THEN {[b \in Rows(logits) |-> ArgMax(logits[b])]}
    ELSE [Rows(logits) -> Vocab]

(* A faulty update that overwrites the flags with the current comparison. *)
UpdateFinished_overwrite(fin, ids, eos) ==
    [b \in Rows(fin) |-> ids[b] = eos]

(* finished |= tf.equal(next_id, eos) *)
UpdateFinished(fin, ids, eos) ==
    [b \in Rows(fin) |-> fin[b] \/ ids[b] = eos]

(***************************************************************************)
(* One iteration of tf.while_loop: the condition holds and _body runs.     *)
(***************************************************************************)
_body ==
    /\ pc = "greedy"
    /\ is_not_finished(step, finished, call.decode_length)
    /\ \E r \in {_impl(next_id, step, cache, hparams)} :
       \E answer \in [Asked(r.outputs) \ DOMAIN net -> LogitsChoices] :
       \E logits \in {Squeeze(output_layer(r.outputs, net @@ answer))} :
       \E ids \in SampleIds(logits, hparams.sampling_method) :
          /\ net' = net @@ answer
          /\ finished' = UpdateFinished(finished, ids, call.eos)
          /\ log_prob' = [b \in Rows(log_prob) |->
                            AddLogProb(log_prob[b],
                                       LogSoftmaxAt(logits[b], ids[b]))]
          /\ next_id' = [b \in Rows(next_id) |-> <<ids[b]>>]
          /\ decoded_ids' = [b \in Rows(decoded_ids) |->
                               Append(decoded_ids[b], ids[b])]
          /\ cache' = r.cache
          /\ kv_proj' = kv_proj + r.kv_proj
          /\ step' = step + 1
    /\ iters' = iters + 1
    /\ trace' = Append(trace, LoopState')
    /\ UNCHANGED <<inputs_, pc, call, returns, beam, oneshot_vars>>

(***************************************************************************)
(* The loop's condition fails: _greedy_decode returns (outputs, log_prob)  *)
(* with the singleton beam dimension, and _build returns the predictions.  *)
(***************************************************************************)
GreedyReturn ==
    /\ pc = "greedy"
    /\ ~is_not_finished(step, finished, call.decode_length)
    /\ returns' = Append(returns,
                         [fn |-> call.fn,
                          sampled_ids |-> [b \in Rows(decoded_ids) |->
                                             <<decoded_ids[b]>>],
                          log_probs |-> [b \in Rows(log_prob) |->
                                           <<log_prob[b]>>],
                          iters |-> iters,
                          trace |-> trace])
    /\ pc' = "idle"
    /\ UNCHANGED <<inputs_, net, call, greedy_vars, iters, kv_proj, trace,
                   beam, oneshot_vars>>


(***************************************************************************)
(* beam_search.beam_search.  For every batch item it keeps the live        *)
(* hypotheses (token sequence from the start token on, cumulative          *)
(* log-probability, the hypothesis' own rows of the cache) and the         *)
(* retired ones.  A step runs the step function on the live hypotheses of  *)
(* all items as rows, expands every one by every token of the vocabulary,  *)
(* keeps the beam_width best by penalised score (the penalty             *)
(* ((5 + length) / 6) ** alpha is 1 at alpha = 0, the only value           *)
(* modelled), gives each survivor its parent's rows of the cache, and      *)
(* retires the survivors that end with the end token.  It stops at         *)
(* decode_length or when no item has a live hypothesis, and returns per    *)
(* item the retired hypotheses, best first (the live ones when none was    *)
(* retired).                                                               *)
(***************************************************************************)
CacheRow(c, r) ==
    [memory |-> c.memory[r],
     encoder_decoder_attention_bias |-> c.encoder_decoder_attention_bias[r],
     layer |-> [l \in Layers |->
                  [self_keys |-> c.layer[l].self_keys[r],
                   self_values |-> c.layer[l].self_values[r],
                   memory_keys |-> c.layer[l].memory_keys[r],
                   memory_values |-> c.layer[l].memory_values[r]]]]

StackRows(rows) ==
    [memory |-> [r \in Rows(rows) |-> rows[r].memory],
     encoder_decoder_attention_bias |->
         [r \in Rows(rows) |-> rows[r].encoder_decoder_attention_bias],
     layer |-> [l \in Layers |->
                  [self_keys |-> [r \in Rows(rows) |->
                                    rows[r].layer[l].self_keys],
                   self_values |-> [r \in Rows(rows) |->
                                      rows[r].layer[l].self_values],
                   memory_keys |-> [r \in Rows(rows) |->
                                      rows[r].layer[l].memory_keys],
                   memory_values |-> [r \in Rows(rows) |->
                                        rows[r].layer[l].memory_values]]]]

RECURSIVE FlattenAlive(_, _)
FlattenAlive(hyps, b) ==
    IF b = 0 THEN <<>>
    ELSE FlattenAlive(hyps, b - 1)
         \o [j \in 1..Len(hyps[b].alive) |-> <<b, j>>]

(* Candidate c before candidate d: the higher score, and on equal scores  *)
(* the lower index.  score maps a candidate's index to its log-probability *)
Better(score, c, d) ==
    \/ LessLogProb(score[d], score[c])
    \/ (score[c] = score[d] /\ c < d)

(* The k best of the candidates `cands`, best first. *)
RECURSIVE TopK(_, _, _)
TopK(score, cands, k) ==
    IF k = 0 \/ cands = {} THEN <<>>
    ELSE LET best == CHOOSE c \in cands :
                        \A d \in cands : d = c \/ Better(score, c, d)
         IN  <<best>> \o TopK(score, cands \ {best}, k - 1)

SelectSeq2(seq, keep) ==
    LET F[i \in 0..Len(seq)] ==
            IF i = 0 THEN <<>>
            ELSE IF keep[i] THEN Append(F[i - 1], seq[i]) ELSE F[i - 1]
    IN  F[Len(seq)]

beam_search_init(start_tokens, states) ==
    [i |-> 0,
     hyps |-> [b \in Rows(start_tokens) |->
                 [alive |-> <<[ids |-> <<start_tokens[b]>>,
                               log_prob |-> ZeroLogProb,
                               cache |-> CacheRow(states, b)]>>,
                  finished |-> <<>>]]]

beam_search_continue(bm, decode_length) ==
    /\ bm.i < decode_length
    /\ \E b \in Rows(bm.hyps) : Len(bm.hyps[b].alive) > 0

(* The state after one step, given the step function's result r on the    *)
(* rows `rows` and the logits of the rows.  Candidate j * VocabSize + v    *)
(* of an item extends its j-th live hypothesis (counted from 0) by token v *)
beam_search_step(bm, rows, r, logits, beam_width, eos) ==
    [i |-> bm.i + 1,
     hyps |-> [b \in Rows(bm.hyps) |->
        LET alive == bm.hyps[b].alive
            row == [j \in 1..Len(alive) |->
                      CHOOSE n \in Rows(rows) : rows[n] = <<b, j>>]
            cands == 0..(Len(alive) * VocabSize - 1)
            parent == [c \in cands |-> (c \div VocabSize) + 1]
            token == [c \in cands |-> c % VocabSize]
            score == [c \in cands |->
                        AddLogProb(alive[parent[c]].log_prob,
                                   LogSoftmaxAt(logits[row[parent[c]]],
                                                token[c]))]
            top == TopK(score, cands, beam_width)
            kept == [k \in 1..Len(top) |->
                       [ids |-> Append(alive[parent[top[k]]].ids,
                                       token[top[k]]),
                        log_prob |-> score[top[k]],
                        cache |-> CacheRow(r.cache, row[parent[top[k]]])]]
            ends == [k \in 1..Len(top) |-> token[top[k]] = eos]
            lives == [k \in 1..Len(top) |-> ~ends[k]]
        IN  IF Len(alive) = 0 THEN bm.hyps[b]
            ELSE [alive |-> SelectSeq2(kept, lives),
                  finished |-> bm.hyps[b].finished
                               \o SelectSeq2(kept, ends)]]]

(* The hypotheses returned for one item, best first. *)
beam_search_result(h, beam_width) ==
    LET pool == IF Len(h.finished) > 0 THEN h.finished ELSE h.alive
        score == [k \in 1..Len(pool) |-> pool[k].log_prob]
        ranked == TopK(score, 1..Len(pool), beam_width)
    IN  [k \in 1..Len(ranked) |-> pool[ranked[k]]]

(***************************************************************************)
(* _beam_decode up to the loop of beam_search.                             *)
(***************************************************************************)
_beam_decode(start_tokens, eos, memory, bias, decode_length, beam_width) ==
    /\ beam' = beam_search_init(start_tokens, _init_cache(memory, bias))
    /\ call' = [fn |-> "_beam_decode", eos |-> eos,
                decode_length |-> decode_length, beam_width |-> beam_width,
                max_length |-> decode_length + 1]
    /\ iters' = 0
    /\ kv_proj' = 0
    /\ trace' = <<>>
    /\ pc' = "beam"

(* _build in inference mode with beam_width > 1. *)
BuildBeam ==
    /\ pc = "idle"
    /\ Len(returns) < RunsWanted(hparams)
    /\ ~(hparams.beam_width <= 1)
    /\ _beam_decode(StartTokens(BatchSize(encoder_decoder_attention_bias)),
                    hparams.eos_idx, encoder_output,
                    encoder_decoder_attention_bias,
                    hparams.maximum_decode_length, hparams.beam_width)
    /\ UNCHANGED <<inputs_, net, returns, greedy_vars, oneshot_vars>>

(* A client's own call of _beam_decode with a beam of one, on the inputs   *)
(* and the start tokens of the _build calls before it.                     *)
BeamDecodeCall ==
    /\ pc = "idle"
    /\ hparams.beam_width <= 1
    /\ Len(returns) = RunsWanted(hparams)
    /\ _beam_decode(StartTokens(BatchSize(encoder_decoder_attention_bias)),
                    hparams.eos_idx, encoder_output,
                    encoder_decoder_attention_bias,
                    hparams.maximum_decode_length, 1)
    /\ UNCHANGED <<inputs_, net, returns, greedy_vars, oneshot_vars>>

BeamRows(bm) == FlattenAlive(bm.hyps, Len(bm.hyps))

BeamIds(bm, rows) ==
    [n \in Rows(rows) |-> bm.hyps[rows[n][1]].alive[rows[n][2]].ids]

BeamStates(bm, rows) ==
    StackRows([n \in Rows(rows) |->
                  bm.hyps[rows[n][1]].alive[rows[n][2]].cache])

BeamStep ==
    /\ pc = "beam"
    /\ beam_search_continue(beam, call.decode_length)
    /\ \E rows \in {BeamRows(beam)} :
       \E r \in {_impl(BeamIds(beam, rows), beam.i,
                       BeamStates(beam, rows), hparams)} :
       \E answer \in [Asked(r.outputs) \ DOMAIN net -> LogitsChoices] :
       \E logits \in {Squeeze(output_layer(r.outputs, net @@ answer))} :
          /\ net' = net @@ answer
          /\ beam' = beam_search_step(beam, rows, r, logits,
                                      call.beam_width, call.eos)
          /\ kv_proj' = kv_proj + r.kv_proj
    /\ iters' = iters + 1
    /\ UNCHANGED <<inputs_, pc, call, returns, greedy_vars, trace, oneshot_vars>>

(* beam_search returns; _beam_decode drops the start token. *)
BeamReturn ==
    /\ pc = "beam"
    /\ ~beam_search_continue(beam, call.decode_length)
    /\ LET res == [b \in Rows(beam.hyps) |->
                     beam_search_result(beam.hyps[b], call.beam_width)]
       IN  returns' = Append(returns,
               [fn |-> call.fn,
                sampled_ids |-> [b \in Rows(res) |->
                    [k \in 1..Len(res[b]) |-> Tail(res[b][k].ids)]],
                log_probs |-> [b \in Rows(res) |->
                    [k \in 1..Len(res[b]) |-> res[b][k].log_prob]],
                iters |-> iters,
                trace |-> trace])
    /\ pc' = "idle"
    /\ UNCHANGED <<inputs_, net, call, greedy_vars, iters, kv_proj, trace,
                   beam, oneshot_vars>>


(***************************************************************************)
(* _build in training mode: the causal bias, the embedded and (under       *)
(* 'sqrt_depth' only; there is no other branch) scaled target, the         *)
(* position embeddings, one run of the stack with no cache.                *)
(***************************************************************************)
(* A faulty embedding of the target that drops its first position. *)
TargetInputs_shifted(decoder_input, hp) ==
    [r \in Rows(decoder_input) |->
        [i \in 1..(Len(decoder_input[r]) - 1) |->
            Position(AddTiming(
                ScaleEmbedding(
                    _prepare_tokens_to_embeds(decoder_input[r][i + 1]),
                    hp.multiply_embedding_mode),
                i - 1))]]

TargetInputs(decoder_input, hp) ==
    [r \in Rows(decoder_input) |->
        [i \in 1..Len(decoder_input[r]) |->
            Position(AddTiming(
                ScaleEmbedding(_prepare_tokens_to_embeds(decoder_input[r][i]),
                               hp.multiply_embedding_mode),
                i - 1))]]

_build_train(enc_output, enc_dec_bias, decoder_input, hp) ==
    _self_attention_stack(TargetInputs(decoder_input, hp), Some(enc_output),
                          "causal", Some(enc_dec_bias), None)

(* The target batches of a training call: every row of one length. *)
TargetBatches(B) ==
    UNION {[1..B -> [1..n -> Vocab]] : n \in 0..MaxTargetLen}

(* Training calls are made on batches of these sizes. *)
TrainBatchSizes == {1}

(***************************************************************************)
(* A training call of _build.  Dropout is active, so the logits are not    *)
(* the network's answers of the inference calls: any logits may come out.  *)
(***************************************************************************)
BuildTrain ==
    /\ pc = "idle"
    /\ returns = <<>>
    /\ BatchSize(encoder_decoder_attention_bias) \in TrainBatchSizes
    /\ \E decoder_input \in
           TargetBatches(BatchSize(encoder_decoder_attention_bias)) :
       \E res \in {_build_train(encoder_output,
                                encoder_decoder_attention_bias,
                                decoder_input, hparams)} :
       \E answer \in [Asked(res.st.x) -> LogitsChoices] :
       \E logits \in {output_layer(res.st.x, answer)} :
          train_out' = [called |-> TRUE,
                        decoder_input |-> decoder_input,
                        raised |-> res.raised,
                        inputs |-> [r \in Rows(res.st.x) |->
                                      Inputs(res.st.x[r])],
                        layers_run |-> res.st.layers_run,
                        cache_given |-> ~IsNone(res.st.cache),
                        logits |-> logits,
                        preds |-> [r \in Rows(logits) |->
                                     [i \in 1..Len(logits[r]) |->
                                         ArgMax(logits[r][i])]]]
    /\ pc' = "done"
    /\ UNCHANGED <<inputs_, net, call, greedy_vars, iters, kv_proj, trace,
                   returns, beam, stack_out, data>>

(***************************************************************************)
(* A client's own call of _self_attention_stack on one embedded start      *)
(* token per row, with or without a (fresh) cache, with or without a       *)
(* self-attention bias, and with any cross-attention bias.                 *)
(***************************************************************************)
StackCall ==
    /\ pc = "idle"
    /\ returns = <<>>
    /\ \E with_cache \in BOOLEAN,
          self_bias \in {NoneBias, "causal"},
          bias_arg \in {None} \cup
              {Some(BiasTensor(BatchSize(encoder_decoder_attention_bias), v)) :
                 v \in BiasValues} :
       \E res \in {_self_attention_stack(
                      TargetInputs([r \in Rows(encoder_output) |->
                                      <<StartTokenFill>>], hparams),
                      Some(encoder_output), self_bias, bias_arg,
                      IF with_cache
                      THEN Some(_init_cache(encoder_output,
                                            encoder_decoder_attention_bias))
                      ELSE None)} :
          stack_out' = [called |-> TRUE,
                        cache_given |-> with_cache,
                        decoder_self_attention_bias |-> self_bias,
                        bias_given |-> bias_arg,
                        raised |-> res.raised,
                        layers_run |-> res.st.layers_run,
                        bias_used |-> res.bias_used,
                        bias_seen |-> [r \in Rows(res.st.x) |->
                                         res.st.x[r][1].bias]]
    /\ pc' = "done"
    /\ UNCHANGED <<inputs_, net, call, greedy_vars, iters, kv_proj, trace,
                   returns, beam, train_out, data>>

(***************************************************************************)
(* PairedTextData (src/texar/data/data/paired_text_data.py).  A string     *)
(* hyperparameter that may be None is an optional string.  An object is a  *)
(* record whose obj field is its identity: two records are the same        *)
(* instance iff their obj fields are equal.                                *)
(***************************************************************************)
BOS_TOKEN == "<BOS>"
EOS_TOKEN == "<EOS>"

SrcVocabObj == "vocab#1"
TgtVocabObj == "vocab#2"
SrcEmbeddingObj == "embedding#1"
TgtEmbeddingObj == "embedding#2"

(* utils.default_string *)
default_string(str_, default_str) ==
    IF ~IsNone(str_) /\ Get(str_) # "" THEN Get(str_) ELSE default_str

(* Vocab(filename, bos_token=..., eos_token=...): a new instance *)
VocabInstance(obj, filename, bos_token, eos_token) ==
    [obj |-> obj, vocab_file |-> filename, bos_token |-> bos_token,
     eos_token |-> eos_token]

(* MonoTextData.make_vocab *)
MonoTextData_make_vocab(hp, obj) ==
    VocabInstance(obj, hp.vocab_file,
                  default_string(hp.bos_token, BOS_TOKEN),
                  default_string(hp.eos_token, EOS_TOKEN))

(* A faulty make_vocab that aliases the source vocabulary whenever         *)
(* sharing is asked for.                                                   *)
make_vocab_always_aliasing(src_hparams, tgt_hparams) ==
    LET src_vocab == MonoTextData_make_vocab(src_hparams, SrcVocabObj)
        share == tgt_hparams.processing_share
        tgt_bos_token ==
            default_string(IF share THEN src_hparams.bos_token
                           ELSE tgt_hparams.bos_token, BOS_TOKEN)
        tgt_eos_token ==
            default_string(IF share THEN src_hparams.eos_token
                           ELSE tgt_hparams.eos_token, EOS_TOKEN)
    IN  [src_vocab |-> src_vocab,
         tgt_vocab |->
            IF tgt_hparams.vocab_share
            THEN src_vocab
            ELSE VocabInstance(TgtVocabObj, tgt_hparams.vocab_file,
                               tgt_bos_token, tgt_eos_token),
         tgt_bos_token |-> tgt_bos_token,
         tgt_eos_token |-> tgt_eos_token]

(* PairedTextData.make_vocab: the pair of vocabularies, and the effective  *)
(* target tokens it computed.                                              *)
make_vocab(src_hparams, tgt_hparams) ==
    LET src_vocab == MonoTextData_make_vocab(src_hparams, SrcVocabObj)
        share == tgt_hparams.processing_share
        tgt_bos_token ==
            default_string(IF share THEN src_hparams.bos_token
                           ELSE tgt_hparams.bos_token, BOS_TOKEN)
        tgt_eos_token ==
            default_string(IF share THEN src_hparams.eos_token
                           ELSE tgt_hparams.eos_token, EOS_TOKEN)
    IN  [src_vocab |-> src_vocab,
         tgt_vocab |->
            IF tgt_hparams.vocab_share
            THEN IF tgt_bos_token = src_vocab.bos_token
                    /\ tgt_eos_token = src_vocab.eos_token
                 THEN src_vocab
                 ELSE VocabInstance(TgtVocabObj, src_hparams.vocab_file,
                                    tgt_bos_token, tgt_eos_token)
            ELSE VocabInstance(TgtVocabObj, tgt_hparams.vocab_file,
                               tgt_bos_token, tgt_eos_token),
         tgt_bos_token |-> tgt_bos_token,
         tgt_eos_token |-> tgt_eos_token]

(* Embedding(vocab, hparams): a new instance, loaded from the file *)
EmbeddingInstance(obj, token_to_id_map, emb_hparams) ==
    [obj |-> obj, vocab |-> token_to_id_map, file |-> Get(emb_hparams.file)]

(* MonoTextData.make_embedding: None when no file is given *)
MonoTextData_make_embedding(emb_hparams, token_to_id_map, obj) ==
    IF ~IsNone(emb_hparams.file) /\ Get(emb_hparams.file) # ""
    THEN Some(EmbeddingInstance(obj, token_to_id_map, emb_hparams))
    ELSE None

(* A faulty make_embedding that tests the file for None only. *)
make_embedding_loading_empty(src_emb_hparams, src_token_to_id_map, tgt_emb_hparams, tgt_token_to_id_map, emb_init_share) ==
    LET src_embedding ==
            MonoTextData_make_embedding(src_emb_hparams, src_token_to_id_map,
                                        SrcEmbeddingObj)
    IN  [src_embedding |-> src_embedding,
         tgt_embedding |->
            IF emb_init_share
            THEN src_embedding
            ELSE IF ~IsNone(tgt_emb_hparams.file)
                 THEN Some(EmbeddingInstance(TgtEmbeddingObj,
                                             tgt_token_to_id_map,
                                             tgt_emb_hparams))
                 ELSE None,
         loaded |-> (IF IsNone(src_embedding) THEN {} ELSE {SrcEmbeddingObj})
                    \cup (IF ~emb_init_share /\ ~IsNone(tgt_emb_hparams.file)
                          THEN {TgtEmbeddingObj} ELSE {})]

(* PairedTextData.make_embedding: the pair of optional embeddings, and the *)
(* instances it constructed.                                               *)
make_embedding(src_emb_hparams, src_token_to_id_map, tgt_emb_hparams, tgt_token_to_id_map, emb_init_share) ==
    LET src_embedding ==
            MonoTextData_make_embedding(src_emb_hparams, src_token_to_id_map,
                                        SrcEmbeddingObj)
        tgt_emb_file == tgt_emb_hparams.file
        load == ~IsNone(tgt_emb_file) /\ Get(tgt_emb_file) # ""
    IN  [src_embedding |-> src_embedding,
         tgt_embedding |->
            IF emb_init_share
            THEN src_embedding
            ELSE IF load
                 THEN Some(EmbeddingInstance(TgtEmbeddingObj,
                                             tgt_token_to_id_map,
                                             tgt_emb_hparams))
                 ELSE None,
         loaded |-> (IF IsNone(src_embedding) THEN {} ELSE {SrcEmbeddingObj})
                    \cup (IF ~emb_init_share /\ load
                          THEN {TgtEmbeddingObj} ELSE {})]

(* A faulty _get_name_prefix that accepts equal names. *)
_get_name_prefix_unchecked(src_hparams, tgt_hparams) ==
    [raised |-> FALSE,
     name_prefix |-> <<src_hparams.data_name, tgt_hparams.data_name>>]

(* PairedTextData._get_name_prefix: raises ValueError, or returns the list *)
_get_name_prefix(src_hparams, tgt_hparams) ==
    LET name_prefix == <<src_hparams.data_name, tgt_hparams.data_name>>
    IN  [raised |-> name_prefix[1] = name_prefix[2],
         name_prefix |-> name_prefix]

(* PairedTextData._process_dataset: the calls it makes, in order, whether  *)
(* it raised, and the prefixes it passed on.                               *)
_process_dataset(hparams_) ==
    LET p == _get_name_prefix(hparams_.source_dataset,
                              hparams_.target_dataset)
    IN  IF p.raised
        THEN [raised |-> TRUE, log |-> <<"_get_name_prefix">>,
              name_prefix |-> None]
        ELSE [raised |-> FALSE,
              log |-> <<"_get_name_prefix", "_make_processor",
                        "make_combined_transformation", "dataset.map">>,
              name_prefix |-> Some(p.name_prefix)]

(* _make_data from the embeddings on (lines 221-253), given the state s1   *)
(* reached once the vocabularies v are made.                               *)
MakeDataFromEmbedding(hparams_, s1, v) ==
    LET tgt_hparams == hparams_.target_dataset
        e == make_embedding(hparams_.source_dataset.embedding_init,
                            v.src_vocab,
                            tgt_hparams.embedding_init,
                            v.tgt_vocab,
                            tgt_hparams.embedding_init_share)
        s2 == [s1 EXCEPT !.log = @ \o <<"make_embedding", "_make_dataset",
                                        "_shuffle_dataset">>,
                         !.fields = @ \cup {"_src_embedding",
                                            "_tgt_embedding",
                                            "_dataset_size"},
                         !.embedding = e]
        p == _process_dataset(hparams_)
        s3 == [s2 EXCEPT !.log = @ \o p.log,
                         !.name_prefix = p.name_prefix]
        s4 == [s3 EXCEPT !.raised = FALSE,
                         !.log = @ \o <<"_make_length_fn", "_make_batch">>
                                   \o (IF hparams_.prefetch_buffer_size > 0
                                       THEN <<"dataset.prefetch">>
                                       ELSE <<>>),
                         !.fields = @ \cup {"_data_spec", "_src_decoder",
                                            "_tgt_decoder", "_dataset"}]
    IN  IF p.raised THEN s3 ELSE s4

(* The state of the object once make_vocab has returned (line 213). *)
MakeDataVocab(hparams_, v) ==
    [called |-> TRUE, hparams |-> hparams_, raised |-> TRUE,
     log |-> <<"make_vocab">>, fields |-> {"_src_vocab", "_tgt_vocab"},
     vocab |-> v, embedding |-> <<>>, name_prefix |-> None]

(* A faulty _make_data that tests the sharing flags after the embeddings   *)
(* are made.                                                               *)
_make_data_checking_late(hparams_) ==
    LET tgt_hparams == hparams_.target_dataset
        v == make_vocab(hparams_.source_dataset, tgt_hparams)
        s1 == MakeDataVocab(hparams_, v)
    IN  IF ~tgt_hparams.vocab_share /\ tgt_hparams.embedding_init_share
        THEN [s1 EXCEPT
                 !.log = @ \o <<"make_embedding">>,
                 !.fields = @ \cup {"_src_embedding", "_tgt_embedding"},
                 !.embedding =
                     make_embedding(hparams_.source_dataset.embedding_init,
                                    v.src_vocab, tgt_hparams.embedding_init,
                                    v.tgt_vocab,
                                    tgt_hparams.embedding_init_share)]
        ELSE MakeDataFromEmbedding(hparams_, s1, v)

(* PairedTextData._make_data, the body of the constructor: the calls made, *)
(* in order, the attributes assigned, and whether ValueError was raised.   *)
_make_data(hparams_) ==
    LET tgt_hparams == hparams_.target_dataset
        v == make_vocab(hparams_.source_dataset, tgt_hparams)
        s1 == MakeDataVocab(hparams_, v)
    IN  IF ~tgt_hparams.vocab_share /\ tgt_hparams.embedding_init_share
        THEN s1
        ELSE MakeDataFromEmbedding(hparams_, s1, v)

(* target_embedding_init_value: None when the embedding is unset *)
target_embedding_init_value(tgt_embedding) ==
    IF IsNone(tgt_embedding) THEN None
    ELSE Some([word_vecs |-> Get(tgt_embedding).obj])

(***************************************************************************)
(* The hyperparameters a PairedTextData is constructed with.  The source   *)
(* keeps its default data_name and eos_token; the other fields that        *)
(* make_vocab, make_embedding, _get_name_prefix and _make_data read take   *)
(* the values below.                                                       *)
(***************************************************************************)
OptTokens(toks) == {None} \cup {Some(t) : t \in toks}

SourceDatasets ==
    [vocab_file : {"src.vocab"},
     bos_token : OptTokens({"<s>"}),
     eos_token : {None},
     embedding_init : [file : OptTokens({"src.emb"})],
     data_name : {"source"}]

TargetDatasets ==
    [vocab_file : {"src.vocab", "tgt.vocab"},
     bos_token : OptTokens({"<s>"}),
     eos_token : OptTokens({"</s>"}),
     embedding_init : [file : OptTokens({"", "tgt.emb"})],
     data_name : {"source", "target"},
     vocab_share : BOOLEAN,
     embedding_init_share : BOOLEAN,
     processing_share : BOOLEAN]

DataHParams ==
    [source_dataset : SourceDatasets,
     target_dataset : TargetDatasets,
     prefetch_buffer_size : {0, 1}]

(***************************************************************************)
(* PairedTextData(hparams): the constructor runs _make_data.  The data     *)
(* object reads nothing of the decoder; it is constructed beside a decoder *)
(* with the default hyperparameters that has not been called.              *)
(***************************************************************************)
MakeData ==
    /\ pc = "idle"
    /\ returns = <<>>
    /\ hparams = default_hparams(0)
    /\ Len(encoder_output) = 1
    /\ \E hparams_ \in DataHParams : data' = _make_data(hparams_)
    /\ pc' = "done"
    /\ UNCHANGED <<inputs_, net, call, greedy_vars, iters, kv_proj, trace,
                   returns, beam, train_out, stack_out>>

Next ==
    \/ BuildGreedy
    \/ _body
    \/ GreedyReturn
    \/ BuildBeam
    \/ BeamDecodeCall
    \/ BeamStep
    \/ BeamReturn
    \/ BuildTrain
    \/ StackCall
    \/ MakeData

Spec == Init /\ [][Next]_vars

(***************************************************************************)
(* Properties.                                                             *)
(***************************************************************************)
GreedyReturns == {k \in 1..Len(returns) : returns[k].fn = "_greedy_decode"}
BeamReturns == {k \in 1..Len(returns) : returns[k].fn = "_beam_decode"}
InGreedy == pc = "greedy"
AllFinished(fin) == \A b \in Rows(fin) : fin[b]

(* C1: the greedy loop terminates within decode_length iterations of its   *)
(* body: the number of iterations run never exceeds decode_length, every   *)
(* step taken inside the loop is either one more iteration, still within   *)
(* decode_length, or the return of _greedy_decode, the return is possible   *)
(* as soon as the loop condition is false, and every returned call ran at  *)
(* most decode_length iterations.                                          *)
C1_GreedyTerminates ==
    /\ [](InGreedy => iters <= call.decode_length)
    /\ [](\A k \in GreedyReturns :
             returns[k].iters <= hparams.maximum_decode_length)
    /\ []((InGreedy /\ ~is_not_finished(step, finished, call.decode_length))
             => ENABLED GreedyReturn)
    /\ [][InGreedy =>
            \/ pc' = "idle" /\ iters' = iters
            \/ pc' = "greedy" /\ iters' = iters + 1
                             /\ iters' <= call.decode_length]_vars

(* C1 witness: a greedy call returned after exactly decode_length >= 2     *)
(* iterations with an item still unfinished.                               *)
C1_Witness ==
    \E k \in GreedyReturns :
        /\ hparams.maximum_decode_length >= 2
        /\ returns[k].iters = hparams.maximum_decode_length
        /\ ~AllFinished(returns[k].trace[Len(returns[k].trace)].finished)

(* C2: in the greedy loop, the next thing to happen at step s is an        *)
(* iteration of the body if s < decode_length and some item is unfinished, *)
(* and the return otherwise, that is exactly when s = decode_length or     *)
(* every item is finished.                                                 *)
C2_LoopCondition ==
    [][InGreedy =>
         LET stop == step = call.decode_length \/ AllFinished(finished)
         IN  /\ stop => (pc' = "idle" /\ iters' = iters /\ step' = step)
             /\ ~stop => (pc' = "greedy" /\ iters' = iters + 1
                          /\ step' = step + 1 /\ step < call.decode_length)
    ]_vars

(* C2 witness: a greedy call over two rows returned before decode_length,  *)
(* every item being finished, after an iteration that left one unfinished. *)
C2_Witness ==
    \E k \in GreedyReturns :
        /\ returns[k].iters = 2
        /\ returns[k].iters < hparams.maximum_decode_length + 1
        /\ Len(encoder_output) = 2
        /\ ~AllFinished(returns[k].trace[2].finished)
        /\ AllFinished(returns[k].trace[3].finished)

(* The position the last layer computes for row b at step 0 of a decoding  *)
(* call: the argument at which the network is asked for the first logits.  *)
FirstContext(b) ==
    _impl([r \in Rows(encoder_output) |-> <<StartTokenFill>>], 0,
          _init_cache(encoder_output, encoder_decoder_attention_bias),
          hparams).outputs[b][1]

FirstAllEos(ret) ==
    /\ Len(ret.trace) >= 2
    /\ \A b \in Rows(ret.sampled_ids) :
          ret.trace[2].next_id[b] = <<hparams.eos_idx>>

(* C3: when decode_length >= 1 and the token chosen at step 0 is eos_idx   *)
(* for every item, the greedy loop ran one iteration, every returned       *)
(* sequence is that one token, and every returned log-probability is the   *)
(* log-softmax of the first logits at that token.                          *)
C3_FirstTokenEos ==
    \A k \in GreedyReturns :
        FirstAllEos(returns[k]) =>
            /\ returns[k].iters = 1
            /\ \A b \in Rows(returns[k].sampled_ids) :
                  /\ returns[k].sampled_ids[b] = <<<<hparams.eos_idx>>>>
                  /\ returns[k].log_probs[b] =
                        <<LogSoftmaxAt(net[FirstContext(b)],
                                       hparams.eos_idx)>>

(* C3 witness: a greedy call over two rows whose first tokens were all eos *)
C3_Witness ==
    \E k \in GreedyReturns :
        /\ FirstAllEos(returns[k])
        /\ Len(encoder_output) = 2
        /\ hparams.maximum_decode_length >= 2

CacheLengths(c, n) ==
    \A l \in Layers : \A r \in Rows(c.memory) :
        /\ Len(c.layer[l].self_keys[r]) = n
        /\ Len(c.layer[l].self_values[r]) = n

(* C4: in the greedy loop the self-attention keys and values of every      *)
(* layer and row have length step: 0 in the cache of _init_cache, t before *)
(* step t, t + 1 after it.                                                 *)
C4_CacheLength ==
    /\ CacheLengths(cache, step)
    /\ \A i \in 1..Len(trace) :
          trace[i].step = i - 1 /\ CacheLengths(trace[i].cache, i - 1)

(* C4 witness: the loop has run two steps over two rows. *)
C4_Witness ==
    /\ InGreedy
    /\ step = 2
    /\ Len(encoder_output) = 2
    /\ CacheLengths(cache, 2)

(* C5 (as claimed): once a step has run, every layer of the cache holds    *)
(* the memory keys and values computed from the encoder output, the memory *)
(* was projected once per layer in the call, and the cache's memory and    *)
(* bias are those of the call.                                             *)
C5_MemoryKeysComputedOnce ==
    (InGreedy /\ step >= 1) =>
        /\ \A l \in Layers : \A r \in Rows(cache.memory) :
              /\ cache.layer[l].memory_keys[r] = <<encoder_output[r]>>
              /\ cache.layer[l].memory_values[r] = <<encoder_output[r]>>
        /\ kv_proj = NumBlocks
        /\ cache.memory = encoder_output
        /\ cache.encoder_decoder_attention_bias =
               encoder_decoder_attention_bias

(* C6 (as claimed): under a multiply_embedding_mode other than             *)
(* 'sqrt_depth' no step function produces logits and a training call       *)
(* raises.                                                                 *)
C6_UnsupportedModeFailsFast ==
    hparams.multiply_embedding_mode # "sqrt_depth" =>
        /\ iters = 0
        /\ DOMAIN net = {}
        /\ train_out.called => train_out.raised

(* C7: a call of the stack with no cache and no self-attention bias raises *)
(* before any layer is evaluated; with a cache a missing self-attention    *)
(* bias is accepted, every layer is evaluated and the cross-attention bias *)
(* is the cache's, whatever was passed.                                    *)
C7_StackContract ==
    stack_out.called =>
        /\ (~stack_out.cache_given
            /\ stack_out.decoder_self_attention_bias = NoneBias)
              => (stack_out.raised /\ stack_out.layers_run = 0)
        /\ stack_out.cache_given =>
              /\ ~stack_out.raised
              /\ stack_out.layers_run = NumBlocks
              /\ stack_out.bias_used = Some(encoder_decoder_attention_bias)
              /\ stack_out.bias_seen = encoder_decoder_attention_bias

(* C7 witness: a call with a cache, no self-attention bias and a           *)
(* cross-attention bias other than the cache's.                            *)
C7_Witness ==
    /\ stack_out.called
    /\ stack_out.cache_given
    /\ stack_out.decoder_self_attention_bias = NoneBias
    /\ ~IsNone(stack_out.bias_given)
    /\ stack_out.bias_given # Some(encoder_decoder_attention_bias)

(* C8 (as claimed): a greedy call starts at step 0 with nothing finished,  *)
(* nothing decoded, log-probability 0, the cache of _init_cache, and       *)
(* bos_idx as the last token of every row.                                 *)
C8_StartsFromBos ==
    (call.fn = "_greedy_decode" /\ Len(trace) >= 1) =>
        /\ trace[1].step = 0
        /\ \A b \in Rows(encoder_output) :
              /\ trace[1].finished[b] = FALSE
              /\ trace[1].decoded_ids[b] = <<>>
              /\ trace[1].log_prob[b] = ZeroLogProb
              /\ trace[1].next_id[b] = <<hparams.bos_idx>>
        /\ trace[1].cache =
               _init_cache(encoder_output, encoder_decoder_attention_bias)

Deterministic == hparams.sampling_method = "argmax"

(* C9 (as claimed): under arg-max, _beam_decode with a beam of one returns *)
(* the token sequences and log-probabilities of _greedy_decode.            *)
C9_BeamOneEqualsGreedy ==
    Deterministic =>
        \A g \in GreedyReturns : \A m \in BeamReturns :
            /\ returns[m].sampled_ids = returns[g].sampled_ids
            /\ returns[m].log_probs = returns[g].log_probs

(* eos is absent from ids, or is its last token only *)
NothingAfterEos(ids, eos) ==
    \A i \in 1..Len(ids) : ids[i] = eos => i = Len(ids)

(* C9 (amended): under arg-max, for every item whose greedy sequence has   *)
(* no token after its first end token, _beam_decode with a beam of one     *)
(* returns that item's greedy sequence and log-probability.                *)
C9_BeamOneEqualsGreedyUpToEos ==
    Deterministic =>
        \A g \in GreedyReturns : \A m \in BeamReturns :
            \A b \in Rows(returns[g].sampled_ids) :
                NothingAfterEos(returns[g].sampled_ids[b][1],
                                hparams.eos_idx) =>
                    /\ returns[m].sampled_ids[b] = returns[g].sampled_ids[b]
                    /\ returns[m].log_probs[b] = returns[g].log_probs[b]

(* C9 witness: both decoders returned a two-token sequence ending in eos   *)
(* for an item of a batch of two.                                          *)
C9_Witness ==
    /\ Deterministic
    /\ Len(encoder_output) = 2
    /\ \E g \in GreedyReturns : \E m \in BeamReturns :
          \E b \in Rows(returns[g].sampled_ids) :
              /\ Len(returns[g].sampled_ids[b][1]) = 2
              /\ returns[g].sampled_ids[b][1][2] = hparams.eos_idx
              /\ returns[g].sampled_ids[b][1][1] # hparams.eos_idx
              /\ returns[m].sampled_ids[b] = returns[g].sampled_ids[b]

C11_FinishedMonotone ==
    \A i \in 1..Len(trace) : \A b \in Rows(trace[i].finished) :
        /\ trace[i].finished[b] <=>
              \E j \in 1..Len(trace[i].decoded_ids[b]) :
                  trace[i].decoded_ids[b][j] = hparams.eos_idx
        /\ \A k \in i..Len(trace) :
              trace[i].finished[b] => trace[k].finished[b]

(* C11 witness: an item finished at one step was given a token other than  *)
(* the end token at a later step of the same loop and is still finished.   *)
C11_Witness ==
    \E i \in 1..Len(trace) : \E b \in Rows(trace[i].finished) :
        /\ i >= 3
        /\ trace[i - 1].finished[b]
        /\ trace[i].next_id[b] # <<hparams.eos_idx>>
        /\ trace[i].finished[b]

(* C15: a training call evaluates every layer of the stack once, with no   *)
(* cache; its logits have, for every row, exactly as many positions as the *)
(* target given, each computed from the target token at that position, and *)
(* the predicted id at every position is a token whose logit there is the  *)
(* largest over the vocabulary.                                            *)
C15_TrainingOutput ==
    train_out.called =>
        /\ ~train_out.raised
        /\ ~train_out.cache_given
        /\ train_out.layers_run = NumBlocks
        /\ Rows(train_out.logits) = Rows(train_out.decoder_input)
        /\ Rows(train_out.preds) = Rows(train_out.decoder_input)
        /\ \A r \in Rows(train_out.decoder_input) :
              /\ Len(train_out.logits[r]) = Len(train_out.decoder_input[r])
              /\ Len(train_out.preds[r]) = Len(train_out.decoder_input[r])
              /\ \A i \in 1..Len(train_out.decoder_input[r]) :
                    /\ train_out.inputs[r][i].tok =
                          train_out.decoder_input[r][i]
                    /\ train_out.preds[r][i] \in Vocab
                    /\ \A u \in Vocab :
                          train_out.logits[r][i][u] <=
                              train_out.logits[r][i][train_out.preds[r][i]]

(* C15 witness: a training call on a target of two tokens whose logits     *)
(* differ between the positions.                                           *)
C15_Witness ==
    /\ train_out.called
    /\ Len(train_out.decoder_input[1]) = 2
    /\ train_out.preds[1][1] # train_out.preds[1][2]

(* The position the last layer computes for row b in the iteration that   *)
(* starts from loop state ls: the argument at which the network is asked   *)
(* for that iteration's logits.                                            *)
StepContext(ls, b) ==
    _impl(ls.next_id, ls.step, ls.cache, hparams).outputs[b][1]

(* p is the log-probability q plus the log-probability t *)
IsSumLogProb(p, q, t) == p[1] * (q[2] * t[2]) = p[2] * (q[1] * t[1])

(* C16: every iteration of the greedy loop, for every item, finished or    *)
(* not, appends the token chosen for the item to its decoded ids and adds  *)
(* the log-softmax of that token to its log-probability (stated of the     *)
(* iteration that led to the current loop state); what is returned is the  *)
(* decoded ids and log-probability of the last loop state, so a returned   *)
(* log-probability is the sum over all tokens of the sequence.             *)
C16_NoMaskingAfterFinish ==
    /\ (InGreedy /\ Len(trace) >= 2) =>
          LET before == trace[Len(trace) - 1]
          IN  \A b \in Rows(finished) :
                  /\ decoded_ids[b] =
                        Append(before.decoded_ids[b], next_id[b][1])
                  /\ IsSumLogProb(log_prob[b], before.log_prob[b],
                                  LogSoftmaxAt(net[StepContext(before, b)],
                                               next_id[b][1]))
    /\ \A i \in 2..Len(trace) : \A b \in Rows(trace[i].finished) :
          /\ Len(trace[i].decoded_ids[b]) =
                Len(trace[i - 1].decoded_ids[b]) + 1
          /\ LessLogProb(trace[i].log_prob[b], trace[i - 1].log_prob[b])
    /\ \A k \in GreedyReturns : \A b \in Rows(returns[k].sampled_ids) :
          LET last == returns[k].trace[Len(returns[k].trace)]
          IN  /\ returns[k].sampled_ids[b] = <<last.decoded_ids[b]>>
              /\ returns[k].log_probs[b] = <<last.log_prob[b]>>
              /\ Len(last.decoded_ids[b]) = returns[k].iters

(* C16 witness: a returned sequence has a token other than the end token   *)
(* after its end token, and its log-probability is smaller than that of    *)
(* the sequence up to the end token.                                       *)
C16_Witness ==
    \E k \in GreedyReturns : \E b \in Rows(returns[k].sampled_ids) :
        /\ Len(returns[k].sampled_ids[b][1]) = 2
        /\ returns[k].sampled_ids[b][1][1] = hparams.eos_idx
        /\ returns[k].sampled_ids[b][1][2] # hparams.eos_idx
        /\ returns[k].trace[2].finished[b]
        /\ LessLogProb(returns[k].log_probs[b][1],
                       returns[k].trace[2].log_prob[b])

(* C17: in every state of the greedy loop every item has decoded exactly   *)
(* step tokens, the token fed to the next iteration is the last one        *)
(* decoded (the start token at step 0), and step is at most decode_length; *)
(* the position-signal rows read so far (those of the positions the        *)
(* network was asked about) include the step of every iteration run, and   *)
(* each is at most decode_length - 1, inside the table of                  *)
(* decode_length + 1 rows.                                                 *)
C17_LoopStateShape ==
    call.fn = "_greedy_decode" =>
        /\ call.max_length = call.decode_length + 1
        /\ \A i \in 1..Len(trace) :
              /\ trace[i].step = i - 1
              /\ trace[i].step <= call.decode_length
              /\ \A b \in Rows(trace[i].decoded_ids) :
                    /\ Len(trace[i].decoded_ids[b]) = trace[i].step
                    /\ Len(trace[i].next_id[b]) = 1
                    /\ trace[i].next_id[b][1] =
                          IF trace[i].step = 0 THEN StartTokenFill
                          ELSE trace[i].decoded_ids[b][trace[i].step]
        /\ LET rows_read == {c.inp.pos : c \in DOMAIN net}
           IN  /\ \A row \in rows_read :
                     row <= call.decode_length - 1 /\ row < call.max_length
               /\ \A i \in 2..Len(trace) : trace[i - 1].step \in rows_read

(* C17 witness: the loop over two rows has run decode_length = 2           *)
(* iterations, the last of which read row decode_length - 1.               *)
C17_Witness ==
    /\ call.fn = "_greedy_decode"
    /\ InGreedy
    /\ call.decode_length = 2
    /\ step = call.decode_length
    /\ Len(encoder_output) = 2
    /\ StepContext(trace[2], 1).inp.pos = call.decode_length - 1

(* C12: of the vocabularies make_vocab returned, the target one is the    *)
(* source instance when vocab_share is set and the effective target bos    *)
(* and eos tokens are those of the source vocabulary; it is another        *)
(* instance, read from the source vocab file with the effective target     *)
(* tokens, when vocab_share is set and a token differs; and it is another  *)
(* instance, read from the target vocab file, when vocab_share is not set. *)
C12_VocabSharing ==
    data.called =>
        LET src == data.hparams.source_dataset
            tgt == data.hparams.target_dataset
            v == data.vocab
            same_tokens == /\ v.tgt_bos_token = v.src_vocab.bos_token
                           /\ v.tgt_eos_token = v.src_vocab.eos_token
            built_from(file) ==
                /\ v.tgt_vocab.obj # v.src_vocab.obj
                /\ v.tgt_vocab.vocab_file = file
                /\ v.tgt_vocab.bos_token = v.tgt_bos_token
                /\ v.tgt_vocab.eos_token = v.tgt_eos_token
        IN  /\ v.src_vocab.vocab_file = src.vocab_file
            /\ (tgt.vocab_share /\ same_tokens)
                  => v.tgt_vocab.obj = v.src_vocab.obj
            /\ (tgt.vocab_share /\ ~same_tokens)
                  => built_from(src.vocab_file)
            /\ ~tgt.vocab_share => built_from(tgt.vocab_file)

(* C12 witness: vocab_share with a target bos token given in the target's  *)
(* own hyperparameters and equal to the source's: one instance.            *)
C12_Witness ==
    /\ data.called
    /\ data.hparams.target_dataset.vocab_share
    /\ ~data.hparams.target_dataset.processing_share
    /\ data.hparams.target_dataset.bos_token = Some("<s>")
    /\ data.hparams.target_dataset.eos_token = None
    /\ data.vocab.tgt_vocab.obj = data.vocab.src_vocab.obj
    /\ data.vocab.tgt_vocab.bos_token = "<s>"

Logged(e) == \E i \in 1..Len(data.log) : data.log[i] = e

(* C13: a construction whose source and target data_name are equal raises *)
(* and creates no processor and no transformation; when it gets as far as  *)
(* _process_dataset the error is raised by _get_name_prefix, the last call *)
(* made.  When the names differ and _process_dataset is reached, the       *)
(* prefixes are the source's name then the target's, and the processor is  *)
(* made after them.                                                        *)
C13_NameCollision ==
    data.called =>
        LET src_name == data.hparams.source_dataset.data_name
            tgt_name == data.hparams.target_dataset.data_name
        IN  /\ src_name = tgt_name =>
                  /\ data.raised
                  /\ ~Logged("_make_processor")
                  /\ ~Logged("make_combined_transformation")
                  /\ ~Logged("dataset.map")
                  /\ IsNone(data.name_prefix)
                  /\ Logged("_get_name_prefix") =>
                        data.log[Len(data.log)] = "_get_name_prefix"
            /\ (src_name # tgt_name /\ Logged("_get_name_prefix")) =>
                  /\ ~data.raised
                  /\ data.name_prefix = Some(<<src_name, tgt_name>>)
                  /\ \E i \in 1..(Len(data.log) - 1) :
                        /\ data.log[i] = "_get_name_prefix"
                        /\ data.log[i + 1] = "_make_processor"

(* C13 witness: equal names, and _get_name_prefix raised after the         *)
(* embeddings and the dataset were made.                                   *)
C13_Witness ==
    /\ data.called
    /\ data.hparams.source_dataset.data_name =
          data.hparams.target_dataset.data_name
    /\ data.raised
    /\ Logged("_make_dataset")
    /\ data.log[Len(data.log)] = "_get_name_prefix"

(* C14: of the embeddings make_embedding returned, the target one is None  *)
(* (nothing loaded, nothing raised, and no init value) when                *)
(* embedding_init_share is not set and the target file is None or empty;   *)
(* it is a new instance over the target vocabulary and file when the file  *)
(* is not empty; and it is the source embedding itself when                *)
(* embedding_init_share is set.                                            *)
C14_TargetEmbedding ==
    (data.called /\ Logged("make_embedding")) =>
        LET tgt == data.hparams.target_dataset
            file == tgt.embedding_init.file
            e == data.embedding
            unset == IsNone(file) \/ Get(file) = ""
        IN  /\ Logged("_make_dataset")
            /\ (~tgt.embedding_init_share /\ unset) =>
                  /\ IsNone(e.tgt_embedding)
                  /\ TgtEmbeddingObj \notin e.loaded
                  /\ IsNone(target_embedding_init_value(e.tgt_embedding))
            /\ (~tgt.embedding_init_share /\ ~unset) =>
                  /\ ~IsNone(e.tgt_embedding)
                  /\ Get(e.tgt_embedding).obj = TgtEmbeddingObj
                  /\ Get(e.tgt_embedding).file = Get(file)
                  /\ Get(e.tgt_embedding).vocab = data.vocab.tgt_vocab
                  /\ TgtEmbeddingObj \in e.loaded
                  /\ e.tgt_embedding # e.src_embedding
            /\ tgt.embedding_init_share =>
                  /\ e.tgt_embedding = e.src_embedding
                  /\ TgtEmbeddingObj \notin e.loaded

(* C14 witness: no sharing, an empty target file beside a source file:     *)
(* the source embedding is loaded and the target one is None.              *)
C14_Witness ==
    /\ data.called
    /\ Logged("make_embedding")
    /\ ~data.hparams.target_dataset.embedding_init_share
    /\ data.hparams.target_dataset.embedding_init.file = Some("")
    /\ ~IsNone(data.embedding.src_embedding)
    /\ IsNone(data.embedding.tgt_embedding)
    /\ ~data.raised

(* C18: a construction with target embedding_init_share set and           *)
(* vocab_share not set raises once the vocabularies are made and assigned: *)
(* make_vocab is the only call made, no embedding is loaded, no dataset is *)
(* created, and no attribute but the two vocabularies is assigned.         *)
C18_ShareEmbeddingNeedsSharedVocab ==
    (/\ data.called
     /\ data.hparams.target_dataset.embedding_init_share
     /\ ~data.hparams.target_dataset.vocab_share) =>
        /\ data.raised
        /\ data.log = <<"make_vocab">>
        /\ data.fields = {"_src_vocab", "_tgt_vocab"}
        /\ data.vocab.tgt_vocab.obj = TgtVocabObj
        /\ data.embedding = <<>>
        /\ ~Logged("make_embedding")
        /\ ~Logged("_make_dataset")

(* C18 witness: such a construction, with embedding files given on both    *)
(* sides and distinct data names, has raised.                              *)
C18_Witness ==
    /\ data.called
    /\ data.hparams.target_dataset.embedding_init_share
    /\ ~data.hparams.target_dataset.vocab_share
    /\ data.hparams.source_dataset.embedding_init.file = Some("src.emb")
    /\ data.hparams.target_dataset.embedding_init.file = Some("tgt.emb")
    /\ data.hparams.target_dataset.data_name = "target"
    /\ data.raised

====
